---- MODULE Spec2Model ----
\* A model of the vmcircbuffer crate: a single-producer/single-consumer ring
\* buffer over a double-mapped memory region (src/src/vmcircbuffer.rs,
\* src/src/shared_mem.rs, src/src/rounding.rs).
\*
\* One Writer thread and one Reader thread share a Position (two cursors and a
\* capacity) behind a Mutex, a Condvar and the mapped region.  Every critical
\* section of the code (from lock() to the drop of the guard) is one action;
\* the code between two critical sections of one call is a position of the
\* calling thread (w_pc, r_pc).
EXTENDS Integers, Naturals, Sequences, FiniteSets, TLC

\* ------------------------------------------------------------------ bounds

\* Width of usize in bits (64 in the build; scaled down so that the cursors
\* wrap within the explored runs).
WordBits == 3

\* Largest capacity a caller requests from new().
MaxRequested == 2

\* Largest size_of::<T>() in bytes.
MaxElemSize == 2

\* The host's page size in bytes, as pagesize() reports it (scaled down).
PageSize == 4

\* Longest caller buffer handed to write/read/read_exact and largest amount
\* handed to produce/consume.
MaxLen == 3

\* Largest capacity requested in the construction-only specification.
MaxCoerceRequested == 1030

\* Width of usize in bits for the rounding helper called on its own.
RoundBits == 6

\* Largest size handed to the rounding helper called on its own.
MaxRoundSize == 24

\* Largest alignment handed to the rounding helper called on its own.
MaxRoundAlign == 8

\* ------------------------------------------------------------- arithmetic

RECURSIVE Pow2(_)
Pow2(n) == IF n = 0 THEN 1 ELSE 2 * Pow2(n - 1)

\* usize::MAX + 1.
WordMod == Pow2(WordBits)

Min(a, b) == IF a <= b THEN a ELSE b

\* usize::wrapping_sub / usize::wrapping_add.
\* A subtraction that stops at zero instead of wrapping.
SaturatingSub(a, b) == IF a >= b THEN a - b ELSE 0

WrappingSub(a, b) == (a - b + WordMod) % WordMod

WrappingAdd(a, b) == (a + b) % WordMod

\* The & operator on usize, bit by bit.
RECURSIVE BitAnd(_, _)
BitAnd(a, b) ==
    IF a = 0 \/ b = 0 THEN 0
    ELSE (a % 2) * (b % 2) + 2 * BitAnd(a \div 2, b \div 2)

\* usize::is_power_of_two: exactly one bit set.
IsPowerOfTwo(n) == n > 0 /\ BitAnd(n, n - 1) = 0

\* usize::next_power_of_two: doubling from 1 until the value is reached.
RECURSIVE NextPowerOfTwoFrom(_, _)
NextPowerOfTwoFrom(p, n) == IF p >= n THEN p ELSE NextPowerOfTwoFrom(2 * p, n)

\* A next_power_of_two that returns the power of two strictly above n.
NextPowerOfTwoStrict(n) == NextPowerOfTwoFrom(1, n + 1)

\* usize::next_power_of_two(n).
NextPowerOfTwo(n) == NextPowerOfTwoFrom(1, n)

\* rounding.rs: *self + multiple - 1 - (*self - 1) % multiple, on the
\* integers: the value for the sizes x >= 1 that SharedMemory::new rounds.
\* RoundUpUsize evaluates the same expression in usize arithmetic.
RoundUpToMultiple(x, multiple) == x + multiple - 1 - ((x - 1) % multiple)

\* ------------------------------------------------------------------ state

VARIABLES
    phase,       \* "init" before new(), "live" after it, "panicked" when it panicked
    requested,   \* the capacity handed to new()
    elem_size,   \* size_of::<T>()
    shm_len,     \* SharedMemory.len
    map_size,    \* the byte size handed to doublemap()
    mem,         \* the physical bytes behind the mapping
    pos,         \* Position {write, read, capacity}
    poisoned,    \* the Mutex is poisoned (a thread panicked holding the guard)
    notified,    \* the Condvar holds a wake-up for the waiting reader
    w_pc,        \* Writer thread: "idle", "write_commit", "done", "panicked"
    w_buf_len,   \* buf.len() of the write under way
    w_copy_len,  \* copy_len of the write under way, then its Ok value
    w_empty,     \* the write under way took the lock on an empty buffer
    w_view,      \* the slice last returned by as_mut_slice
    r_pc,        \* Reader thread: "idle", "re_wait", "re_read", "read_commit",
                 \* "done", "panicked"
    r_op,        \* the call under way: "none", "read", "read_exact"
    r_buf_len,   \* buf.len() of the call under way
    r_copy_len,  \* copy_len of the call under way, then its Ok value
    r_out,       \* the elements copied into buf
    r_start,     \* pos.read when the copying read took the lock
    r_wakes,     \* notified wake-ups of this read_exact to too little data (up to 2)
    r_follows,   \* this read_exact follows a whole write into an empty buffer
    r_view,      \* the slice last returned by as_slice
    last_write,  \* the last whole write into an empty buffer, not yet read
    shm_refs,    \* strong count of the Arc<SharedMemory<T>>
    released,    \* how often Drop for SharedMemory ran (doublemunlock calls)
    unmap_size,  \* the byte size handed to doublemunlock()
    produced,    \* history: elements ever produced, modulo 2 * WordMod
    consumed,    \* history: elements ever consumed, modulo 2 * WordMod
    rounding     \* the rounding helper's input and result

shared == <<phase, requested, elem_size, shm_len, map_size, mem, pos,
            poisoned, notified, last_write>>

wvars == <<w_pc, w_buf_len, w_copy_len, w_empty, w_view>>

rvars == <<r_pc, r_op, r_buf_len, r_copy_len, r_out, r_start, r_wakes,
           r_follows, r_view>>

\* The region's ownership.
dvars == <<shm_refs, released, unmap_size>>

\* History variables and the rounding helper's test bench.
hvars == <<produced, consumed, rounding>>

vars == <<shared, wvars, rvars, dvars, hvars>>

NoView == [off |-> 0, len |-> 0, cur |-> 0, live |-> FALSE]

NoWrite == [start |-> 0, len |-> 0]

\* --------------------------------------------------------------- Position

\* Position::new (the assert_eq! on is_power_of_two is IsPowerOfTwo).
PositionNew(capacity) == [write |-> 0, read |-> 0, capacity |-> capacity]

\* Position::read_len.
ReadLen(p) == WrappingSub(p.write, p.read)

\* A write_len that takes the whole buffer for free.
WriteLenIgnoresRead(p) == p.capacity

\* Position::write_len.
WriteLen(p) == WrappingSub(p.capacity, WrappingSub(p.write, p.read))

\* A write_offset that forgets the mask.
WriteOffsetUnmasked(p) == p.write

\* Position::write_offset.
WriteOffset(p) == BitAnd(p.write, p.capacity - 1)

\* A read_offset that masks with capacity instead of capacity - 1.
ReadOffsetWrongMask(p) == BitAnd(p.read, p.capacity)

\* Position::read_offset.
ReadOffset(p) == BitAnd(p.read, p.capacity - 1)

\* An assert! of produce against the capacity instead of the free space.
ProduceAssertCapacity(p, amount) == amount <= p.capacity

\* The assert! of Position::produce.
ProduceAssert(p, amount) == amount <= WriteLen(p)

\* The assignment of Position::produce.
ProduceAdvance(p, amount) == [p EXCEPT !.write = WrappingAdd(p.write, amount)]

\* An assert! of consume against the capacity instead of the readable data.
ConsumeAssertCapacity(p, amount) == amount <= p.capacity

\* The assert! of Position::consume.
ConsumeAssert(p, amount) == amount <= ReadLen(p)

\* A consume that advances the other cursor.
ConsumeAdvanceWriteCursor(p, amount) ==
    [p EXCEPT !.write = WrappingAdd(p.write, amount)]

\* The assignment of Position::consume.
ConsumeAdvance(p, amount) == [p EXCEPT !.read = WrappingAdd(p.read, amount)]

\* ----------------------------------------------------------------- region

\* A byte of the zero-initialised anonymous mapping.
ZeroByte == <<0, 0>>

\* doublemap(size): size bytes of storage mapped twice, the second mapping
\* right behind the first; virtual byte v of the 2*size range is physical
\* byte v mod size.
PhysByte(v) == v % map_size

\* Byte k of an element of type T holding the value d.  T is Copy and the code
\* never looks into an element, so the bytes of distinct values, and the
\* distinct bytes of one value, are kept distinguishable.
ElemBytes(d) == [k \in 0..(elem_size - 1) |-> <<d, k>>]

\* The element at shm.ptr.offset(idx): elem_size bytes from idx * elem_size.
ElemAt(m, idx) ==
    [k \in 0..(elem_size - 1) |-> m[PhysByte(idx * elem_size + k)]]

\* slice::from_raw_parts(shm.ptr.offset(off), ..)[0..n] as a sequence.
SliceRead(m, off, n) == [i \in 1..n |-> ElemAt(m, off + i - 1)]

\* dest[0..n].copy_from_slice(src) with dest at shm.ptr.offset(off): a byte
\* copy in ascending address order (a later byte wins on the same storage).
CopyFromSlice(m, off, src) ==
    [b \in DOMAIN m |->
        LET hits == {v \in (off * elem_size)..((off + Len(src)) * elem_size - 1) :
                        PhysByte(v) = b}
        IN  IF hits = {} THEN m[b]
            ELSE LET v == CHOOSE x \in hits : \A y \in hits : y <= x
                     e == v - off * elem_size
                 IN  src[(e \div elem_size) + 1][e % elem_size]]

\* The value the producer puts at cursor position c: the payload is a stamp of
\* the position, so that a lost, repeated or misplaced element shows.
Stamp(c) == 1 + (c % (2 * pos.capacity))

\* The caller's buffer for a write of n elements starting at cursor c.
Payload(c, n) == [i \in 1..n |-> ElemBytes(Stamp(WrappingAdd(c, i - 1)))]

\* ---------------------------------------------------------------- Condvar

\* A commit that forgets to notify.
NotifyOneForgotten == notified

\* Condvar::notify_one: wakes the reader if it waits, else has no effect.
NotifyOne == IF r_pc = "re_wait" THEN TRUE ELSE notified

\* ----------------------------------------------------------- construction

InitChannel ==
    /\ phase = "init"
    /\ requested = 0
    /\ elem_size = 1
    /\ shm_len = 0
    /\ map_size = 1
    /\ mem = [b \in 0..0 |-> ZeroByte]
    /\ pos = PositionNew(1)
    /\ poisoned = FALSE
    /\ notified = FALSE
    /\ last_write = NoWrite
    /\ w_pc = "idle"
    /\ w_buf_len = 0
    /\ w_copy_len = 0
    /\ w_empty = FALSE
    /\ w_view = NoView
    /\ r_pc = "idle"
    /\ r_op = "none"
    /\ r_buf_len = 0
    /\ r_copy_len = 0
    /\ r_out = <<>>
    /\ r_start = 0
    /\ r_wakes = 0
    /\ r_follows = FALSE
    /\ r_view = NoView
    /\ shm_refs = 0
    /\ released = 0
    /\ unmap_size = 0
    /\ produced = 0
    /\ consumed = 0

\* The rounding helper's test bench when it is not in use.
NoRounding ==
    [x |-> 0, multiple |-> 1, done |-> FALSE, panic |-> FALSE, value |-> 0]

Init ==
    /\ InitChannel
    /\ rounding = NoRounding

\* The Arc<SharedMemory<T>>'s strong count when new() returns: one clone in
\* the Writer, one in the Reader, the local shm dropped at the end of new().
HandleCount == 2

\* SharedMemory::new, the byte size it asks doublemap for.
RequiredSize(len, esz, page) == RoundUpToMultiple(len * esz, page)

\* new(capacity) for an element type of esz bytes on a host with the given
\* page size; ok is the host's answer to doublemap (a null pointer when not).
\* SharedMemory::new returns Err on a null pointer and new() unwraps it.
New(capacity, esz, page, ok) ==
    /\ phase = "init"
    /\ requested' = capacity
    /\ LET pow_two_cap == NextPowerOfTwo(capacity)
           required_size == RequiredSize(pow_two_cap, esz, page)
       IN  IF ok /\ IsPowerOfTwo(pow_two_cap)
           THEN /\ phase' = "live"
                /\ elem_size' = esz
                /\ shm_len' = pow_two_cap
                /\ map_size' = required_size
                /\ mem' = [b \in 0..(required_size - 1) |-> ZeroByte]
                /\ pos' = PositionNew(pow_two_cap)
                /\ shm_refs' = HandleCount
           ELSE /\ phase' = "panicked"
                /\ UNCHANGED <<elem_size, shm_len, map_size, mem, pos,
                               shm_refs>>
    /\ UNCHANGED <<poisoned, notified, last_write, wvars, rvars, released,
                   unmap_size>>

\* ----------------------------------------------------------------- Writer

\* Writer::as_mut_slice: under the lock, the slice of write_len elements at
\* write_offset.  The slice borrows the Writer mutably, so it ends with the
\* Writer's next call.
WriterAsMutSlice ==
    /\ phase = "live" /\ w_pc = "idle" /\ ~poisoned
    /\ w_view' = [off |-> WriteOffset(pos), len |-> WriteLen(pos),
                  cur |-> pos.write, live |-> TRUE]
    /\ UNCHANGED <<shared, w_pc, w_buf_len, w_copy_len, w_empty, rvars>>
    /\ UNCHANGED dvars

\* Writer::produce(amount) called by the user: lock, Position::produce
\* (a failed assert! panics with the guard held, which poisons the Mutex),
\* notify_one.
WriterProduce(amount) ==
    /\ phase = "live" /\ w_pc = "idle" /\ ~poisoned
    /\ w_view' = NoView
    /\ IF ProduceAssert(pos, amount)
       THEN /\ pos' = ProduceAdvance(pos, amount)
            /\ notified' = NotifyOne
            /\ UNCHANGED <<w_pc, poisoned>>
       ELSE /\ w_pc' = "panicked"
            /\ poisoned' = TRUE
            /\ UNCHANGED <<pos, notified>>
    /\ UNCHANGED <<phase, requested, elem_size, shm_len, map_size, mem,
                   last_write, w_buf_len, w_copy_len, w_empty, rvars>>
    /\ UNCHANGED dvars

\* A write that takes the whole buffer whatever the free space.
WriteCopyLenWhole(p, len) == len

\* write_len.min(buf.len()) of Writer::write.
WriteCopyLen(p, len) == Min(WriteLen(p), len)

\* Writer::write(buf), first block: lock, copy_len elements of buf copied to
\* the slice at write_offset, unlock.
WriteCopy(len) ==
    /\ phase = "live" /\ w_pc = "idle" /\ ~poisoned
    /\ LET copy_len == WriteCopyLen(pos, len)
       IN  /\ mem' = CopyFromSlice(mem, WriteOffset(pos),
                                   Payload(pos.write, copy_len))
           /\ w_copy_len' = copy_len
    /\ w_buf_len' = len
    /\ w_empty' = (ReadLen(pos) = 0)
    /\ w_view' = NoView
    /\ w_pc' = "write_commit"
    /\ UNCHANGED <<phase, requested, elem_size, shm_len, map_size, pos,
                   poisoned, notified, last_write, rvars>>
    /\ UNCHANGED dvars

\* Writer::write(buf), self.produce(copy_len) and Ok(copy_len).
WriteCommit ==
    /\ phase = "live" /\ w_pc = "write_commit" /\ ~poisoned
    /\ IF ProduceAssert(pos, w_copy_len)
       THEN /\ pos' = ProduceAdvance(pos, w_copy_len)
            /\ notified' = NotifyOne
            /\ w_pc' = "done"
            /\ last_write' =
                   IF w_empty /\ w_buf_len >= 1 /\ w_copy_len = w_buf_len
                   THEN [start |-> pos.write, len |-> w_copy_len]
                   ELSE last_write
            /\ UNCHANGED poisoned
       ELSE /\ w_pc' = "panicked"
            /\ poisoned' = TRUE
            /\ UNCHANGED <<pos, notified, last_write>>
    /\ UNCHANGED <<phase, requested, elem_size, shm_len, map_size, mem,
                   w_buf_len, w_copy_len, w_empty, w_view, rvars>>
    /\ UNCHANGED dvars

\* The caller takes the Ok value of write and goes on.
WriterReturn ==
    /\ w_pc = "done"
    /\ w_pc' = "idle"
    /\ w_buf_len' = 0
    /\ w_copy_len' = 0
    /\ w_empty' = FALSE
    /\ UNCHANGED <<shared, w_view, rvars>>
    /\ UNCHANGED dvars

\* lock().unwrap() on a poisoned Mutex panics.
WriterPoisonPanic ==
    /\ phase = "live" /\ poisoned
    /\ w_pc \in {"idle", "write_commit"}
    /\ w_pc' = "panicked"
    /\ w_view' = NoView
    /\ UNCHANGED <<shared, w_buf_len, w_copy_len, w_empty, rvars>>
    /\ UNCHANGED dvars

\* ----------------------------------------------------------------- Reader

\* Reader::as_slice: under the lock, the slice of read_len elements at
\* read_offset.  It borrows the Reader, so it ends with the Reader's next
\* &mut call.
ReaderAsSlice ==
    /\ phase = "live" /\ r_pc = "idle" /\ ~poisoned
    /\ r_view' = [off |-> ReadOffset(pos), len |-> ReadLen(pos),
                  cur |-> pos.read, live |-> TRUE]
    /\ UNCHANGED <<shared, wvars, r_pc, r_op, r_buf_len, r_copy_len, r_out,
                   r_start, r_wakes, r_follows>>
    /\ UNCHANGED dvars

\* Reader::consume(amount) called by the user: lock, Position::consume,
\* notify_one (no writer ever waits on the Condvar).
ReaderConsume(amount) ==
    /\ phase = "live" /\ r_pc = "idle" /\ ~poisoned
    /\ r_view' = NoView
    /\ IF ConsumeAssert(pos, amount)
       THEN /\ pos' = ConsumeAdvance(pos, amount)
            /\ notified' = NotifyOne
            /\ last_write' = IF amount > 0 THEN NoWrite ELSE last_write
            /\ UNCHANGED <<r_pc, poisoned>>
       ELSE /\ r_pc' = "panicked"
            /\ poisoned' = TRUE
            /\ UNCHANGED <<pos, notified, last_write>>
    /\ UNCHANGED <<phase, requested, elem_size, shm_len, map_size, mem,
                   wvars, r_op, r_buf_len, r_copy_len, r_out, r_start,
                   r_wakes, r_follows>>
    /\ UNCHANGED dvars

\* A read that takes the whole buffer whatever is readable.
ReadCopyLenWhole(p, len) == len

\* read_len.min(buf.len()) of Reader::read.
ReadCopyLen(p, len) == Min(ReadLen(p), len)

\* Reader::read(buf), first block: lock, copy_len elements of the slice at
\* read_offset copied to buf, unlock.
ReadCopyBlock(len) ==
    /\ LET copy_len == ReadCopyLen(pos, len)
       IN  /\ r_out' = SliceRead(mem, ReadOffset(pos), copy_len)
           /\ r_copy_len' = copy_len
    /\ r_start' = pos.read
    /\ r_pc' = "read_commit"

\* Reader::read(buf) called by the user.
ReadCopy(len) ==
    /\ phase = "live" /\ r_pc = "idle" /\ ~poisoned
    /\ r_op' = "read"
    /\ r_buf_len' = len
    /\ r_view' = NoView
    /\ ReadCopyBlock(len)
    /\ UNCHANGED <<shared, wvars, r_wakes, r_follows>>
    /\ UNCHANGED dvars

\* A read_exact that waits only while the buffer is empty.
ReadExactWaitsOnEmpty(p, len) == ReadLen(p) = 0 /\ len > 0

\* A read_exact that settles for a full buffer.
ReadExactMustWaitClamped(p, len) == ReadLen(p) < Min(len, p.capacity)

\* The loop condition of Reader::read_exact: read_len < buf.len().
ReadExactMustWait(p, len) == ReadLen(p) < len

\* Reader::read_exact(buf): lock, read_len; cond.wait releases the lock and
\* blocks when the data does not suffice, else the block ends (unlock).
ReadExactStart(len) ==
    /\ phase = "live" /\ r_pc = "idle" /\ ~poisoned
    /\ r_op' = "read_exact"
    /\ r_buf_len' = len
    /\ r_view' = NoView
    /\ r_follows' = (last_write.len >= 1 /\ last_write.len = len
                     /\ last_write.start = pos.read)
    /\ r_pc' = IF ReadExactMustWait(pos, len) THEN "re_wait" ELSE "re_read"
    /\ UNCHANGED <<shared, wvars, r_copy_len, r_out, r_start, r_wakes>>
    /\ UNCHANGED dvars

\* A read_exact that tests the condition once (if instead of while).
ReadExactNoRecheck(wait) == IF poisoned THEN "panicked" ELSE "re_read"

\* What the woken reader does after cond.wait re-acquired the lock:
\* wait(..).unwrap() panics on a poisoned Mutex; else the loop condition is
\* evaluated again.
ReadExactRecheck(wait) ==
    IF poisoned THEN "panicked"
    ELSE IF wait THEN "re_wait" ELSE "re_read"

\* cond.wait returns after a notify_one.
ReadExactWake ==
    /\ phase = "live" /\ r_pc = "re_wait" /\ notified
    /\ notified' = FALSE
    /\ r_pc' = ReadExactRecheck(ReadExactMustWait(pos, r_buf_len))
    /\ r_wakes' = IF r_pc' = "re_wait" THEN Min(r_wakes + 1, 2) ELSE r_wakes
    /\ UNCHANGED <<phase, requested, elem_size, shm_len, map_size, mem, pos,
                   poisoned, last_write, wvars, r_op, r_buf_len, r_copy_len,
                   r_out, r_start, r_follows, r_view>>
    /\ UNCHANGED dvars

\* cond.wait returns with no notification (a spurious wake-up).
ReadExactSpuriousWake ==
    /\ phase = "live" /\ r_pc = "re_wait" /\ ~notified
    /\ r_pc' = ReadExactRecheck(ReadExactMustWait(pos, r_buf_len))
    /\ UNCHANGED <<shared, wvars, r_op, r_buf_len, r_copy_len, r_out,
                   r_start, r_wakes, r_follows, r_view>>
    /\ UNCHANGED dvars

\* Reader::read_exact, self.read(buf) after the wait loop: its first block.
ReadExactRead ==
    /\ phase = "live" /\ r_pc = "re_read" /\ ~poisoned
    /\ ReadCopyBlock(r_buf_len)
    /\ UNCHANGED <<shared, wvars, r_op, r_buf_len, r_wakes, r_follows,
                   r_view>>
    /\ UNCHANGED dvars

\* Reader::read(buf), self.consume(copy_len) and Ok(copy_len).
ReadCommit ==
    /\ phase = "live" /\ r_pc = "read_commit" /\ ~poisoned
    /\ IF ConsumeAssert(pos, r_copy_len)
       THEN /\ pos' = ConsumeAdvance(pos, r_copy_len)
            /\ notified' = NotifyOne
            /\ r_pc' = "done"
            /\ last_write' = IF r_copy_len > 0 THEN NoWrite ELSE last_write
            /\ UNCHANGED poisoned
       ELSE /\ r_pc' = "panicked"
            /\ poisoned' = TRUE
            /\ UNCHANGED <<pos, notified, last_write>>
    /\ UNCHANGED <<phase, requested, elem_size, shm_len, map_size, mem,
                   wvars, r_op, r_buf_len, r_copy_len, r_out, r_start,
                   r_wakes, r_follows, r_view>>
    /\ UNCHANGED dvars

\* The caller takes the Ok value of read or read_exact and goes on.
ReaderReturn ==
    /\ r_pc = "done"
    /\ r_pc' = "idle"
    /\ r_op' = "none"
    /\ r_buf_len' = 0
    /\ r_copy_len' = 0
    /\ r_out' = <<>>
    /\ r_start' = 0
    /\ r_wakes' = 0
    /\ r_follows' = FALSE
    /\ UNCHANGED <<shared, wvars, r_view>>
    /\ UNCHANGED dvars

\* lock().unwrap() on a poisoned Mutex panics.
ReaderPoisonPanic ==
    /\ phase = "live" /\ poisoned
    /\ r_pc \in {"idle", "re_read", "read_commit"}
    /\ r_pc' = "panicked"
    /\ r_view' = NoView
    /\ UNCHANGED <<shared, wvars, r_op, r_buf_len, r_copy_len, r_out,
                   r_start, r_wakes, r_follows>>
    /\ UNCHANGED dvars

\* ------------------------------------------------------------------- drop

\* Dropping the last of the handles drops the SharedMemory they share:
\* both hold it through an Arc, whose drop runs the inner Drop only for the
\* clone that gives up the last strong reference.
DropReleasesPerHandle(refs) == refs >= 1

DropReleases(refs) == refs = 1

\* Drop of one Arc<SharedMemory<T>> clone; the last one runs Drop for
\* SharedMemory, which hands ptr and len * size_of::<T>() to doublemunlock.
DropShm ==
    /\ shm_refs' = shm_refs - 1
    /\ IF DropReleases(shm_refs)
       THEN /\ released' = released + 1
            /\ unmap_size' = shm_len * elem_size
       ELSE UNCHANGED <<released, unmap_size>>

\* The Writer goes out of scope: between two calls, or when its thread
\* unwinds from a panic.
DropWriter ==
    /\ phase = "live" /\ w_pc \in {"idle", "panicked"}
    /\ w_pc' = "dropped"
    /\ w_view' = NoView
    /\ DropShm
    /\ UNCHANGED <<shared, w_buf_len, w_copy_len, w_empty, rvars>>

\* The Reader goes out of scope: between two calls, or when its thread
\* unwinds from a panic.
DropReader ==
    /\ phase = "live" /\ r_pc \in {"idle", "panicked"}
    /\ r_pc' = "dropped"
    /\ r_view' = NoView
    /\ DropShm
    /\ UNCHANGED <<shared, wvars, r_op, r_buf_len, r_copy_len, r_out,
                   r_start, r_wakes, r_follows>>

\* ---------------------------------------------------------- specifications

\* One step of the channel; the history variables and the rounding helper's
\* test bench stay as they are.
Next ==
    \/ /\ \E capacity \in 1..MaxRequested, esz \in 1..MaxElemSize,
              ok \in BOOLEAN :
               New(capacity, esz, PageSize, ok)
       /\ UNCHANGED hvars
    \/ /\ WriterAsMutSlice
       /\ UNCHANGED hvars
    \/ /\ \E amount \in 0..MaxLen : WriterProduce(amount)
       /\ UNCHANGED hvars
    \/ /\ \E len \in 0..MaxLen : WriteCopy(len)
       /\ UNCHANGED hvars
    \/ /\ WriteCommit
       /\ UNCHANGED hvars
    \/ /\ WriterReturn
       /\ UNCHANGED hvars
    \/ /\ WriterPoisonPanic
       /\ UNCHANGED hvars
    \/ /\ ReaderAsSlice
       /\ UNCHANGED hvars
    \/ /\ \E amount \in 0..MaxLen : ReaderConsume(amount)
       /\ UNCHANGED hvars
    \/ /\ \E len \in 0..MaxLen : ReadCopy(len)
       /\ UNCHANGED hvars
    \/ /\ \E len \in 0..MaxLen : ReadExactStart(len)
       /\ UNCHANGED hvars
    \/ /\ ReadExactWake
       /\ UNCHANGED hvars
    \/ /\ ReadExactSpuriousWake
       /\ UNCHANGED hvars
    \/ /\ ReadExactRead
       /\ UNCHANGED hvars
    \/ /\ ReadCommit
       /\ UNCHANGED hvars
    \/ /\ ReaderReturn
       /\ UNCHANGED hvars
    \/ /\ ReaderPoisonPanic
       /\ UNCHANGED hvars

Spec == Init /\ [][Next]_vars

\* new() alone, over requests up to MaxCoerceRequested.  No cursor moves in
\* this specification.
NextNew ==
    \E capacity \in 1..MaxCoerceRequested, esz \in 1..MaxElemSize,
       ok \in BOOLEAN :
        /\ New(capacity, esz, PageSize, ok)
        /\ UNCHANGED hvars

SpecNew == Init /\ [][NextNew]_vars

\* The channel used through write, read and read_exact only: the copying
\* calls commit what they copied themselves.
NextCopy ==
    \/ /\ \E capacity \in 1..MaxRequested, esz \in 1..MaxElemSize,
              ok \in BOOLEAN :
               New(capacity, esz, PageSize, ok)
       /\ UNCHANGED hvars
    \/ /\ \E len \in 0..MaxLen : WriteCopy(len)
       /\ UNCHANGED hvars
    \/ /\ WriteCommit
       /\ UNCHANGED hvars
    \/ /\ WriterReturn
       /\ UNCHANGED hvars
    \/ /\ \E len \in 0..MaxLen : ReadCopy(len)
       /\ UNCHANGED hvars
    \/ /\ \E len \in 0..MaxLen : ReadExactStart(len)
       /\ UNCHANGED hvars
    \/ /\ ReadExactWake
       /\ UNCHANGED hvars
    \/ /\ ReadExactSpuriousWake
       /\ UNCHANGED hvars
    \/ /\ ReadExactRead
       /\ UNCHANGED hvars
    \/ /\ ReadCommit
       /\ UNCHANGED hvars
    \/ /\ ReaderReturn
       /\ UNCHANGED hvars

SpecCopy == Init /\ [][NextCopy]_vars

\* The history variables count modulo twice the word, one bit more than the
\* cursors keep.
HistoryMod == 2 * WordMod

\* Writer::produce, with the amount it committed added to the history.
ProduceCounted(amount) ==
    /\ WriterProduce(amount)
    /\ produced' = IF ProduceAssert(pos, amount)
                   THEN (produced + amount) % HistoryMod
                   ELSE produced
    /\ UNCHANGED <<consumed, rounding>>

\* Reader::consume, with the amount it committed added to the history.
ConsumeCounted(amount) ==
    /\ ReaderConsume(amount)
    /\ consumed' = IF ConsumeAssert(pos, amount)
                   THEN (consumed + amount) % HistoryMod
                   ELSE consumed
    /\ UNCHANGED <<produced, rounding>>

\* The channel used through the zero-copy commits only, every committed
\* amount counted.
NextWrap ==
    \/ /\ \E capacity \in 1..MaxRequested, esz \in 1..MaxElemSize,
              ok \in BOOLEAN :
               New(capacity, esz, PageSize, ok)
       /\ UNCHANGED hvars
    \/ \E amount \in 0..MaxLen : ProduceCounted(amount)
    \/ \E amount \in 0..MaxLen : ConsumeCounted(amount)
    \/ /\ WriterPoisonPanic
       /\ UNCHANGED hvars
    \/ /\ ReaderPoisonPanic
       /\ UNCHANGED hvars

SpecWrap == Init /\ [][NextWrap]_vars

\* usize arithmetic of the rounding helper at RoundBits bits: the wrapped
\* value, and whether the operation overflowed.
RoundMod == Pow2(RoundBits)

UsizeAdd(a, b) == [v |-> (a + b) % RoundMod, o |-> a + b >= RoundMod]

UsizeSub(a, b) == [v |-> (a - b + RoundMod) % RoundMod, o |-> a < b]

\* round_up_to_multiple on usize,
\*     *self + multiple - 1 - (*self - 1) % multiple
\* operation by operation.  An overflowing + or - panics in a build with
\* overflow checks (debug) and wraps in one without (release).
RoundUpUsize(x, multiple, build) ==
    LET sum     == UsizeAdd(x, multiple)
        sum_1   == UsizeSub(sum.v, 1)
        x_1     == UsizeSub(x, 1)
        rem     == x_1.v % multiple
        res     == UsizeSub(sum_1.v, rem)
        wrapped == sum.o \/ sum_1.o \/ x_1.o \/ res.o
    IN  IF wrapped /\ build = "debug"
        THEN [panic |-> TRUE, value |-> 0]
        ELSE [panic |-> FALSE, value |-> res.v]

\* The rounding helper called on its own, for every size and alignment of
\* the range.
InitRound ==
    /\ InitChannel
    /\ rounding \in {[x |-> n, multiple |-> m, done |-> FALSE,
                       panic |-> FALSE, value |-> 0] :
                         n \in 0..MaxRoundSize, m \in 1..MaxRoundAlign}

RoundUp(build) ==
    /\ ~rounding.done
    /\ LET r == RoundUpUsize(rounding.x, rounding.multiple, build)
       IN  rounding' = [rounding EXCEPT !.done = TRUE, !.panic = r.panic,
                                        !.value = r.value]
    /\ UNCHANGED <<shared, wvars, rvars, dvars, produced, consumed>>

NextRound == \E build \in {"debug", "release"} : RoundUp(build)

SpecRound == InitRound /\ [][NextRound]_vars

\* The reader's thread under a fair scheduler: a notified waiter is woken
\* and a thread that can run does run.  A spurious wake-up may happen but
\* never has to, and the writer is under no obligation to call anything.
ReaderRuns ==
    /\ ReadExactWake \/ ReadExactRead \/ ReadCommit
    /\ UNCHANGED hvars

SpecCopyFair == Init /\ [][NextCopy]_vars /\ WF_vars(ReaderRuns)

\* The copying channel and the end of its two handles.
NextDrop ==
    \/ NextCopy
    \/ /\ DropWriter
       /\ UNCHANGED hvars
    \/ /\ DropReader
       /\ UNCHANGED hvars

SpecDrop == Init /\ [][NextDrop]_vars

\* ------------------------------------------------------------- properties

\* The cursor distance, computed on the integers.
Readable == (pos.write - pos.read + WordMod) % WordMod

Writable == pos.capacity - Readable

\* C1: in every state of a live channel, 0 <= readable_len() <= capacity and
\* readable_len() + writable_len() = capacity.
C1_LengthInvariant ==
    phase = "live" =>
        /\ 0 <= ReadLen(pos)
        /\ ReadLen(pos) <= pos.capacity
        /\ ReadLen(pos) + WriteLen(pos) = pos.capacity

\* A full buffer whose write cursor has wrapped past the word while the read
\* cursor has not.
C1_Witness ==
    /\ phase = "live"
    /\ ReadLen(pos) = pos.capacity
    /\ pos.write < pos.read
    /\ r_pc = "done" /\ w_pc = "done"

\* C2: a write of K elements (1 <= K <= capacity) into an empty buffer
\* returns K, and the read_exact of K elements that follows it returns K and
\* exactly the written elements in order, also across the physical end.
C2_RoundTrip ==
    /\ (w_pc = "done" /\ w_empty /\ w_buf_len >= 1
            /\ w_buf_len <= pos.capacity)
        => w_copy_len = w_buf_len
    /\ (r_pc = "done" /\ r_op = "read_exact" /\ r_follows)
        => /\ r_copy_len = r_buf_len
           /\ r_out = Payload(r_start, r_buf_len)

\* A round trip whose window crossed the physical end of the buffer.
C2_Witness ==
    /\ r_pc = "done" /\ r_op = "read_exact" /\ r_follows
    /\ (r_start % pos.capacity) + r_buf_len > pos.capacity

\* C3: write copies and commits min(writable_len(), len(buf)) elements and
\* read min(readable_len(), len(buf)), lengths taken when the call locks;
\* the commit that follows the copy always succeeds (no wait, no panic), and
\* it moves only the caller's own cursor, by the count returned.
C3_TransferCounts ==
    [][ /\ (w_pc = "idle" /\ w_pc' = "write_commit")
            => /\ w_copy_len' = Min(Writable, w_buf_len')
               /\ (Writable = 0 => w_copy_len' = 0)
        /\ (w_pc = "write_commit" /\ ~poisoned /\ w_pc' # w_pc)
            => /\ w_pc' = "done"
               /\ w_copy_len' = w_copy_len
               /\ pos'.write = (pos.write + w_copy_len) % WordMod
               /\ pos'.read = pos.read
        /\ (r_pc = "idle" /\ r_pc' = "read_commit")
            => /\ r_copy_len' = Min(Readable, r_buf_len')
               /\ Len(r_out') = r_copy_len'
               /\ (Readable = 0 => r_copy_len' = 0)
        /\ (r_pc = "read_commit" /\ r_op = "read" /\ ~poisoned
                /\ r_pc' # r_pc)
            => /\ r_pc' = "done"
               /\ r_copy_len' = r_copy_len
               /\ pos'.read = (pos.read + r_copy_len) % WordMod
               /\ pos'.write = pos.write
      ]_vars

\* A short write and a short read have both returned.
C3_Witness ==
    /\ w_pc = "done" /\ 0 < w_copy_len /\ w_copy_len < w_buf_len
    /\ r_pc = "done" /\ r_op = "read" /\ 0 < r_copy_len
    /\ r_copy_len < r_buf_len

\* C4: a read_exact that waits leaves its wait loop, and returns, only when
\* readable_len() has reached len(buf); a wake-up to less keeps it waiting.
C4_BlocksUntilEnough ==
    [][ /\ (r_pc = "re_wait" /\ r_pc' \notin {"re_wait", "panicked"})
            => Readable >= r_buf_len
        /\ (r_op = "read_exact" /\ r_pc # "done" /\ r_pc' = "done")
            => Readable >= r_buf_len
      ]_vars

\* A read_exact that returned after two notified wake-ups to too little data.
C4_Witness ==
    /\ r_pc = "done" /\ r_op = "read_exact"
    /\ r_wakes = 2
    /\ r_copy_len = r_buf_len

\* C5: a read_exact past its wait loop always finds len(buf) elements: it
\* returns len(buf), copies len(buf) elements and advances the read cursor
\* by len(buf).
C5_NoShortReadExact ==
    /\ (r_pc = "re_read") => Readable >= r_buf_len
    /\ (r_op = "read_exact" /\ r_pc \in {"read_commit", "done"})
        => /\ r_copy_len = r_buf_len
           /\ Len(r_out) = r_buf_len
    /\ (r_op = "read_exact" /\ r_pc = "done")
        => pos.read = (r_start + r_buf_len) % WordMod

\* A read_exact of two or more elements returned while a write was between
\* its copy and its commit.
C5_Witness ==
    /\ r_pc = "done" /\ r_op = "read_exact" /\ r_buf_len >= 2
    /\ w_pc = "write_commit" /\ w_copy_len >= 1

\* C6: the effective capacity is the smallest power of two >= the request
\* (1000 gives 1024, 1024 gives 1024), and it is the tracker's capacity, the
\* base of the offset mask and the element length of the region.
C6_CapacityCoercion ==
    phase = "live" =>
        /\ \E k \in 0..(requested + 1) : pos.capacity = Pow2(k)
        /\ pos.capacity >= requested
        /\ pos.capacity < 2 * requested
        /\ shm_len = pos.capacity
        /\ \A x \in {pos.capacity - 1, pos.capacity, pos.capacity + 1,
                     2 * pos.capacity - 1} :
               BitAnd(x, pos.capacity - 1) = x % pos.capacity
        /\ (requested = 1000 => pos.capacity = 1024)
        /\ (requested = 1024 => pos.capacity = 1024)

\* A request that is already a power of two and was kept.
C6_Witness ==
    /\ phase = "live"
    /\ requested >= 2
    /\ pos.capacity = requested

\* C7 (as claimed): when the host refuses the double mapping, new() hands an
\* error value back to its caller instead of panicking.
C7_AllocationErrorReturned ==
    phase \notin {"init", "live"} => phase = "error"

\* C8: produce(n) with n > writable_len() panics and leaves the cursors
\* unchanged, with n in range it advances the write cursor by exactly n and
\* leaves the read cursor; consume(n) likewise on the read cursor.
C8_CommitContract ==
    (phase = "live" /\ ~poisoned) =>
        \A n \in 0..MaxLen :
            /\ w_pc = "idle" =>
                IF n > Writable
                THEN /\ ENABLED (WriterProduce(n) /\ w_pc' = "panicked"
                                 /\ pos' = pos)
                     /\ ~ENABLED (WriterProduce(n) /\ pos' # pos)
                     /\ ~ENABLED (WriterProduce(n) /\ w_pc' # "panicked")
                ELSE /\ ENABLED (WriterProduce(n) /\ w_pc' = "idle")
                     /\ ~ENABLED (WriterProduce(n)
                                  /\ pos' # [pos EXCEPT !.write =
                                                (pos.write + n) % WordMod])
            /\ r_pc = "idle" =>
                IF n > Readable
                THEN /\ ENABLED (ReaderConsume(n) /\ r_pc' = "panicked"
                                 /\ pos' = pos)
                     /\ ~ENABLED (ReaderConsume(n) /\ pos' # pos)
                     /\ ~ENABLED (ReaderConsume(n) /\ r_pc' # "panicked")
                ELSE /\ ENABLED (ReaderConsume(n) /\ r_pc' = "idle")
                     /\ ~ENABLED (ReaderConsume(n)
                                  /\ pos' # [pos EXCEPT !.read =
                                                (pos.read + n) % WordMod])

\* The writer panicked in produce after earlier commits went through; the
\* reader did not panic.
C8_Witness ==
    /\ w_pc = "panicked" /\ poisoned
    /\ r_pc # "panicked"
    /\ pos.write > 0 /\ pos.read > 0

\* C9 (as claimed): element capacity + i of the region is the storage of
\* element i, for every i below the capacity.
C9_MirrorAtCapacity ==
    phase = "live" =>
        \A i \in 0..(pos.capacity - 1), k \in 0..(elem_size - 1) :
            PhysByte((pos.capacity + i) * elem_size + k)
                = PhysByte(i * elem_size + k)

\* C10: as_mut_slice returns write_len elements at write_offset and as_slice
\* read_len elements at read_offset; the offset is below the capacity and
\* offset + length within twice the capacity, inside the mapped range.
C10_ViewBounds ==
    [][ /\ (w_view' # w_view /\ w_view'.live)
            => /\ w_view'.off = pos.write % pos.capacity
               /\ w_view'.len = Writable
               /\ w_view'.off < pos.capacity
               /\ w_view'.off + w_view'.len <= 2 * pos.capacity
               /\ (w_view'.off + w_view'.len) * elem_size <= 2 * map_size
        /\ (r_view' # r_view /\ r_view'.live)
            => /\ r_view'.off = pos.read % pos.capacity
               /\ r_view'.len = Readable
               /\ r_view'.off < pos.capacity
               /\ r_view'.off + r_view'.len <= 2 * pos.capacity
               /\ (r_view'.off + r_view'.len) * elem_size <= 2 * map_size
      ]_vars

\* A writer's view that runs past the physical end of the single copy while
\* the reader holds a view too.
C10_Witness ==
    /\ w_view.live /\ w_view.off + w_view.len > pos.capacity
    /\ r_view.live

\* The handles that have not been dropped.
LiveHandles ==
    (IF w_pc = "dropped" THEN 0 ELSE 1) + (IF r_pc = "dropped" THEN 0 ELSE 1)

\* C11: however the drops of the Writer and the Reader are ordered and
\* interleaved with the calls of the other side, the region is released
\* exactly once, and only when both handles are gone: no release while a
\* handle exists, one release as soon as the second handle is dropped, and
\* the strong count is the number of handles that still exist.
C11_ReleasedOnce ==
    phase = "live" =>
        /\ shm_refs = LiveHandles
        /\ released = (IF LiveHandles = 0 THEN 1 ELSE 0)

\* Both handles dropped with committed elements still unread, the region
\* released once.
C11_Witness ==
    /\ w_pc = "dropped" /\ r_pc = "dropped"
    /\ released = 1
    /\ Readable > 0

\* C12: when the region is released, the byte size handed to doublemunlock
\* is the byte size that was handed to doublemap when it was allocated (the
\* page-rounded required size).
C12_UnmapSizeIsMapSize ==
    released > 0 => unmap_size = map_size

\* The elements of the single copy a view covers.
ViewElems(v) == {(v.off + i) % pos.capacity : i \in 0..(v.len - 1)}

C14_NoLostWakeup ==
    (r_op = "read_exact" /\ r_pc \in {"re_wait", "re_read"}
        /\ Readable >= r_buf_len)
    ~> (r_op = "read_exact" /\ r_pc = "done")

\* A read_exact that returned after it had waited and had been woken at
\* least once by a commit that brought too little.
C14_Witness ==
    /\ r_op = "read_exact" /\ r_pc = "done"
    /\ r_wakes >= 1
    /\ r_buf_len >= 2

\* The elements committed and not yet consumed, from the history.
InFlight == (produced - consumed + HistoryMod) % HistoryMod

\* C15: with cursors that wrap modulo 2^WordBits, also after the write
\* cursor or both cursors have wrapped: read_len is the number of elements
\* committed and not yet consumed, write_len is the capacity minus that
\* number, write_offset and read_offset are the totals ever produced and
\* consumed modulo the capacity, and a commit fails exactly when its amount
\* is out of that range, never because of the wrap.
C15_WrapSafe ==
    phase = "live" =>
        /\ InFlight <= pos.capacity
        /\ ReadLen(pos) = InFlight
        /\ WriteLen(pos) = pos.capacity - InFlight
        /\ WriteOffset(pos) = produced % pos.capacity
        /\ ReadOffset(pos) = consumed % pos.capacity
        /\ \A n \in 0..MaxLen :
               /\ ProduceAssert(pos, n) <=> n <= pos.capacity - InFlight
               /\ ConsumeAssert(pos, n) <=> n <= InFlight

\* The write cursor has wrapped past the word and the read cursor has
\* not, with elements in flight and nothing panicked.
C15_Witness ==
    /\ phase = "live" /\ ~poisoned
    /\ produced >= WordMod /\ consumed < WordMod
    /\ pos.write < pos.read
    /\ InFlight > 0

\* C16: the cursors only advance and each side changes only its own.  A
\* step that moves the write cursor is a step of the writer alone, moves it
\* forward by at most what was writable and leaves the read cursor; a step
\* that moves the read cursor is a step of the reader alone, moves it
\* forward by at most what was readable and leaves the write cursor; no
\* step of the reader moves the write cursor and none of the writer the
\* read cursor; taking a view moves neither; the capacity never changes
\* after construction, and construction leaves both cursors at zero.
C16_CursorFrame ==
    [][ /\ (phase = "init" /\ phase' = "live")
            => (pos'.write = 0 /\ pos'.read = 0)
        /\ phase = "live"
            => /\ pos'.capacity = pos.capacity
               /\ pos'.write # pos.write
                    => /\ rvars' = rvars
                       /\ pos'.read = pos.read
                       /\ WrappingSub(pos'.write, pos.write) <= Writable
               /\ pos'.read # pos.read
                    => /\ wvars' = wvars
                       /\ pos'.write = pos.write
                       /\ WrappingSub(pos'.read, pos.read) <= Readable
               /\ wvars' # wvars => pos'.read = pos.read
               /\ rvars' # rvars => pos'.write = pos.write
               /\ (w_view' # w_view /\ w_view'.live) => pos' = pos
               /\ (r_view' # r_view /\ r_view'.live) => pos' = pos
      ]_vars

\* A write and a read have both just committed at least one element and
\* both cursors have left zero.
C16_Witness ==
    /\ w_pc = "done" /\ r_pc = "done"
    /\ w_copy_len > 0 /\ r_copy_len > 0
    /\ pos.write # 0 /\ pos.read # 0

\* C17: stream integrity.  With the channel used through write, read and
\* read_exact only, the write cursor counts the elements accepted and the
\* read cursor the elements returned so far, and the writer's element at
\* stream position c carries the stamp of c.  Every read or read_exact
\* returns the accepted elements of the stream positions from the read
\* cursor on, in order: what was returned so far stays a prefix of what was
\* accepted, over any number of wraps of the offsets.
C17_StreamIntegrity ==
    (phase = "live" /\ r_pc \in {"read_commit", "done"}) =>
        /\ r_copy_len <= WrappingSub(pos.write, r_start)
        /\ r_out = Payload(r_start, r_copy_len)

\* C18: with the writer using only write and the reader only read and
\* read_exact, the range assertions of Position::produce and
\* Position::consume never fire: between the copy and the commit the count
\* is still within the length it was taken from (the other side can only
\* have enlarged it), nothing panics and the Mutex is never poisoned.
C18_AssertionsHold ==
    /\ w_pc # "panicked" /\ r_pc # "panicked" /\ ~poisoned
    /\ w_pc = "write_commit" => ProduceAssert(pos, w_copy_len)
    /\ r_pc = "read_commit" => ConsumeAssert(pos, r_copy_len)

\* A write between copy and commit whose count is stale: it was cut short
\* by a full buffer and a read has committed since.
C18_Witness ==
    /\ w_pc = "write_commit" /\ w_copy_len < w_buf_len
    /\ w_copy_len < WriteLen(pos)
    /\ r_pc = "done" /\ r_copy_len > 0

\* C19: a read_exact for more elements than the capacity never returns,
\* whatever the writer does.  The call starts to wait; while it waits,
\* read_len stays below the asked length, the read cursor and the call's
\* output stay as they are, and the call stays waiting: it ends neither
\* with a value nor with an error, and leaves the wait only by the panic
\* of cond.wait on a Mutex that another panic has poisoned.
C19_OversizedNeverReturns ==
    [][ /\ (r_pc = "idle" /\ r_op' = "read_exact"
                /\ r_buf_len' > pos.capacity)
            => r_pc' = "re_wait"
        /\ (r_op = "read_exact" /\ r_pc = "re_wait"
                /\ r_buf_len > pos.capacity)
            => /\ ReadLen(pos) < r_buf_len
               /\ pos'.read = pos.read
               /\ r_out' = r_out
               /\ r_op' = r_op /\ r_buf_len' = r_buf_len
               /\ r_pc' \in {"re_wait", "panicked"}
               /\ r_pc' = "panicked" => poisoned
      ]_vars

\* The reader waits for more than the capacity, the buffer is full and a
\* commit has woken the reader at least once.
C19_Witness ==
    /\ r_op = "read_exact" /\ r_pc = "re_wait"
    /\ r_buf_len > pos.capacity
    /\ ReadLen(pos) = pos.capacity
    /\ r_wakes >= 1

\* C20: for every size n >= 0 and alignment m >= 1 of the range, the
\* rounding helper returns the smallest multiple of m that is >= n (n
\* itself when n is a multiple of m), with no arithmetic underflow or
\* overflow on the way.
C20_RoundsUp ==
    rounding.done =>
        /\ ~rounding.panic
        /\ rounding.value % rounding.multiple = 0
        /\ rounding.value >= rounding.x
        /\ rounding.value < rounding.x + rounding.multiple

====
